---- MODULE Spec2Model ----
(***************************************************************************)
(* serde_mlua: the encoder (src/src/ser.rs) and the decoder                *)
(* (src/src/de.rs) between serde's data model and mlua::Value.             *)
(*                                                                         *)
(* Every value is a tuple whose first element is its tag, so that values   *)
(* of different kinds can be compared.                                     *)
(***************************************************************************)
EXTENDS Integers, Sequences, FiniteSets, TLC

\* The longest sequence / table the model enumerates.
MaxLen == 3
\* The largest memory limit of the Lua runtime the model enumerates, in heap
\* objects (tables and strings) it can still allocate; NoLimit is a runtime
\* that does not run out of memory.
MaxAlloc == 1
NoLimit == 0 - 1

(***************************************************************************)
(* mlua::Value (the variants the converters match on).                     *)
(***************************************************************************)
Nil == <<"nil">>
Boolean(b) == <<"boolean", b>>
Integer(i) == <<"integer", i>>
\* A float is a token: "1.5", "nan".
Number(f) == <<"number", f>>
\* A Lua string is a byte string; BadUtf8 stands for one that is not UTF-8.
String(s) == <<"string", s>>
\* A table is the sequence of its (key, value) pairs in the order in which
\* the runtime's pairs iteration enumerates them.
Table(pairs) == <<"table", pairs>>
\* Any other kind of value (function, userdata, thread, ...).
Function == <<"function">>

BadUtf8 == "<invalid-utf8>"
NaN == Number("nan")

IsTable(v) == v[1] = "table"
Pairs(t) == t[2]
KeysOf(t) == {Pairs(t)[i][1] : i \in 1..Len(Pairs(t))}

Ok(x) == <<"Ok", x>>
Err(m) == <<"Err", m>>
IsOk(r) == r[1] = "Ok"
IsErr(r) == r[1] = "Err"

MemoryError == "not enough memory"
NilIndexError == "table index is nil"
NanIndexError == "table index is NaN"

(***************************************************************************)
(* The runtime's table primitives, as the converters call them.            *)
(***************************************************************************)
RECURSIVE IndexOfKey(_, _, _)
IndexOfKey(ps, k, i) ==
    IF i > Len(ps) THEN 0
    ELSE IF ps[i][1] = k THEN i
    ELSE IndexOfKey(ps, k, i + 1)

\* table.get(k): Nil when the key is absent.
TableGet(t, k) ==
    LET i == IndexOfKey(Pairs(t), k, 1)
    IN IF i = 0 THEN Nil ELSE Pairs(t)[i][2]

RemoveAt(ps, i) == [j \in 1..(Len(ps) - 1) |-> IF j < i THEN ps[j] ELSE ps[j + 1]]

\* table.set(k, v): a Nil or NaN key is a runtime error; a Nil value removes
\* the entry (a table never holds Nil); an existing key keeps its place and
\* a new key is enumerated after the keys already there.
TableSet(t, k, v) ==
    LET ps == Pairs(t)
        i == IndexOfKey(ps, k, 1)
    IN IF k = Nil THEN Err(NilIndexError)
       ELSE IF k = NaN THEN Err(NanIndexError)
       ELSE IF v = Nil
            THEN Ok(Table(IF i = 0 THEN ps ELSE RemoveAt(ps, i)))
       ELSE IF i = 0 THEN Ok(Table(Append(ps, <<k, v>>)))
       ELSE Ok(Table([ps EXCEPT ![i] = <<k, v>>]))

\* The runtime's memory after one allocation.
Allocated(lua) == IF lua = NoLimit THEN NoLimit ELSE lua - 1

\* lua.create_table(): fails when the runtime is out of memory. lua is the
\* number of heap objects the runtime can still allocate.
create_table(lua) ==
    IF lua # 0 THEN <<"Ok", Table(<<>>), Allocated(lua)>> ELSE Err(MemoryError)

\* str.to_lua(lua) = lua.create_string(): allocates the string.
create_string(lua, s) ==
    IF lua # 0 THEN <<"Ok", String(s), Allocated(lua)>> ELSE Err(MemoryError)

\* table.sequence_values(): the values at 1, 2, ... up to the first absent
\* index.
RECURSIVE SequenceFrom(_, _)
SequenceFrom(t, i) ==
    LET v == TableGet(t, Integer(i))
    IN IF v = Nil THEN <<>> ELSE <<v>> \o SequenceFrom(t, i + 1)

sequence_values(t) == SequenceFrom(t, 1)

(***************************************************************************)
(* serde's data model: the typed values handed to to_value.                *)
(*   <<"unit">>  <<"bool", b>>  <<"i64", n>>  <<"f64", tok>>  <<"str", s>> *)
(*   <<"none">>  <<"some", v>>  <<"seq", vs>>  <<"tuple", vs>>             *)
(*   <<"map", <<k, v>> pairs>>  <<"struct", <<name, v>> pairs>>            *)
(*   <<"unit_variant", name>>   <<"newtype_variant", name, v>>             *)
(*   <<"tuple_variant", name, vs>>                                         *)
(*   <<"struct_variant", name, <<name, v>> pairs>>                         *)
(***************************************************************************)

(***************************************************************************)
(* The encoder, src/src/ser.rs. A result is <<"Ok", value, lua>> (lua: the *)
(* memory the runtime has left) or <<"Err", message>>; a compound          *)
(* serializer's method returns Ok(self') or the error.                     *)
(***************************************************************************)

\* value.serialize(Serializer { lua }), defined below.
RECURSIVE Serialize(_, _)

\* The primitives' to_lua: booleans, integers and floats are unboxed, a
\* string is allocated.
Serializer_serialize_bool(lua, v) == <<"Ok", Boolean(v), lua>>
Serializer_serialize_i64(lua, v) == <<"Ok", Integer(v), lua>>
Serializer_serialize_f64(lua, v) == <<"Ok", Number(v), lua>>
Serializer_serialize_str(lua, v) == create_string(lua, v)
Serializer_serialize_none(lua) == <<"Ok", Nil, lua>>
Serializer_serialize_unit(lua) == <<"Ok", Nil, lua>>
Serializer_serialize_unit_variant(lua, variant) == Serializer_serialize_str(lua, variant)

\* A serialize_some that keeps the option visible, as a one-element
\* sequence: what the encoder does not do.
serialize_some_wrapped(lua, value) == Serialize(lua, <<"seq", <<value>>>>)

\* serialize_some: value.serialize(self), no wrapper.
Serializer_serialize_some(lua, value) == Serialize(lua, value)

\* table.set(variant, value) on a fresh table: the single-entry table
\* { variant = value }; the key string is allocated by set.
VariantTable(lua, variant, value) ==
    LET m == create_table(lua)
    IN IF IsErr(m) THEN m
       ELSE LET k == create_string(m[3], variant)
            IN IF IsErr(k) THEN k
               ELSE LET s == TableSet(m[2], k[2], value)
                    IN IF IsErr(s) THEN s ELSE <<"Ok", s[2], k[3]>>

Serializer_serialize_newtype_variant(lua, variant, value) ==
    LET r == Serialize(lua, value)
    IN IF IsErr(r) THEN r ELSE VariantTable(r[3], variant, r[2])

\* SeqSerializer { lua, table, index }, also the tuple and tuple-struct
\* serializer.
Serializer_serialize_seq(lua) ==
    LET t == create_table(lua)
    IN IF IsErr(t) THEN t
       ELSE Ok([lua |-> t[3], table |-> t[2], index |-> 1])

SeqSerializer_serialize_element(self, value) ==
    LET r == Serialize(self.lua, value)
    IN IF IsErr(r) THEN r
       ELSE LET s == TableSet(self.table, Integer(self.index), r[2])
            IN IF IsErr(s) THEN s
               ELSE Ok([lua |-> r[3], table |-> s[2], index |-> self.index + 1])

SeqSerializer_end(self) == <<"Ok", self.table, self.lua>>

\* TupleVariantSerializer { lua, table, index, name }.
Serializer_serialize_tuple_variant(lua, variant) ==
    LET t == create_table(lua)
    IN IF IsErr(t) THEN t
       ELSE Ok([lua |-> t[3], table |-> t[2], index |-> 1, name |-> variant])

TupleVariantSerializer_serialize_field(self, value) ==
    LET r == Serialize(self.lua, value)
    IN IF IsErr(r) THEN r
       ELSE LET s == TableSet(self.table, Integer(self.index), r[2])
            IN IF IsErr(s) THEN s
               ELSE Ok([self EXCEPT !.lua = r[3], !.table = s[2], !.index = self.index + 1])

TupleVariantSerializer_end(self) == VariantTable(self.lua, self.name, self.table)

\* MapSerializer { lua, table, key }; key is <<>> for None and <<k>> for
\* Some(k). Also the struct serializer.
Serializer_serialize_map(lua) ==
    LET t == create_table(lua)
    IN IF IsErr(t) THEN t
       ELSE Ok([lua |-> t[3], table |-> t[2], key |-> <<>>])

MapSerializer_serialize_key(self, key) ==
    LET k == Serialize(self.lua, key)
    IN IF IsErr(k) THEN k
       ELSE Ok([self EXCEPT !.lua = k[3], !.key = <<k[2]>>])

\* key.take().expect(..) panics when no key is pending.
MapSerializer_serialize_value(self, value) ==
    LET r == Serialize(self.lua, value)
    IN IF IsErr(r) THEN r
       ELSE IF self.key = <<>>
            THEN <<"Panic", "serialize_key must be called before serialize_value">>
       ELSE LET s == TableSet(self.table, self.key[1], r[2])
            IN IF IsErr(s) THEN s
               ELSE Ok([lua |-> r[3], table |-> s[2], key |-> <<>>])

\* A serialize_entry that drops the error of table.set instead of
\* propagating it with `?`.
serialize_entry_unchecked(self, key, value) ==
    LET k == Serialize(self.lua, key)
    IN IF IsErr(k) THEN k
       ELSE LET r == Serialize(k[3], value)
            IN IF IsErr(r) THEN r
               ELSE LET s == TableSet(self.table, k[2], r[2])
                    IN IF IsErr(s) THEN Ok([self EXCEPT !.lua = r[3]])
                       ELSE Ok([self EXCEPT !.lua = r[3], !.table = s[2]])

\* serialize_entry (SerializeStruct::serialize_field calls it with the
\* field name): self.key is left as it is.
MapSerializer_serialize_entry(self, key, value) ==
    LET k == Serialize(self.lua, key)
    IN IF IsErr(k) THEN k
       ELSE LET r == Serialize(k[3], value)
            IN IF IsErr(r) THEN r
               ELSE LET s == TableSet(self.table, k[2], r[2])
                    IN IF IsErr(s) THEN s
                       ELSE Ok([self EXCEPT !.lua = r[3], !.table = s[2]])

MapSerializer_end(self) == <<"Ok", self.table, self.lua>>

\* StructVariantSerializer { lua, table, name }.
Serializer_serialize_struct_variant(lua, variant) ==
    LET t == create_table(lua)
    IN IF IsErr(t) THEN t
       ELSE Ok([lua |-> t[3], table |-> t[2], name |-> variant])

StructVariantSerializer_serialize_field(self, key, value) ==
    LET k == Serializer_serialize_str(self.lua, key)
    IN IF IsErr(k) THEN k
       ELSE LET r == Serialize(k[3], value)
            IN IF IsErr(r) THEN r
               ELSE LET s == TableSet(self.table, k[2], r[2])
                    IN IF IsErr(s) THEN s
                       ELSE Ok([self EXCEPT !.lua = r[3], !.table = s[2]])

StructVariantSerializer_end(self) == VariantTable(self.lua, self.name, self.table)

\* serde's Serialize implementations feed a compound value's parts in
\* order (`?` after each call), starting from the result r of the
\* serializer's construction.
RECURSIVE SerializeElements(_, _, _)
SerializeElements(r, vs, i) ==
    IF IsErr(r) \/ i > Len(vs) THEN r
    ELSE SerializeElements(SeqSerializer_serialize_element(r[2], vs[i]), vs, i + 1)

RECURSIVE SerializeTupleFields(_, _, _)
SerializeTupleFields(r, vs, i) ==
    IF IsErr(r) \/ i > Len(vs) THEN r
    ELSE SerializeTupleFields(TupleVariantSerializer_serialize_field(r[2], vs[i]), vs, i + 1)

RECURSIVE SerializeEntries(_, _, _)
SerializeEntries(r, ps, i) ==
    IF IsErr(r) \/ i > Len(ps) THEN r
    ELSE SerializeEntries(MapSerializer_serialize_entry(r[2], ps[i][1], ps[i][2]), ps, i + 1)

RECURSIVE SerializeStructFields(_, _, _)
SerializeStructFields(r, ps, i) ==
    IF IsErr(r) \/ i > Len(ps) THEN r
    ELSE SerializeStructFields(StructVariantSerializer_serialize_field(r[2], ps[i][1], ps[i][2]), ps, i + 1)

\* ... and call the serializer method of the value's kind.
Serialize(lua, v) ==
    CASE v[1] = "unit" -> Serializer_serialize_unit(lua)
      [] v[1] = "bool" -> Serializer_serialize_bool(lua, v[2])
      [] v[1] = "i64" -> Serializer_serialize_i64(lua, v[2])
      [] v[1] = "f64" -> Serializer_serialize_f64(lua, v[2])
      [] v[1] = "str" -> Serializer_serialize_str(lua, v[2])
      [] v[1] = "none" -> Serializer_serialize_none(lua)
      [] v[1] = "some" -> Serializer_serialize_some(lua, v[2])
      [] v[1] \in {"seq", "tuple"} ->
            LET r == SerializeElements(Serializer_serialize_seq(lua), v[2], 1)
            IN IF IsErr(r) THEN r ELSE SeqSerializer_end(r[2])
      [] v[1] = "map" ->
            LET r == SerializeEntries(Serializer_serialize_map(lua), v[2], 1)
            IN IF IsErr(r) THEN r ELSE MapSerializer_end(r[2])
      [] v[1] = "struct" ->
            LET r == SerializeEntries(Serializer_serialize_map(lua),
                        [i \in 1..Len(v[2]) |-> <<<<"str", v[2][i][1]>>, v[2][i][2]>>], 1)
            IN IF IsErr(r) THEN r ELSE MapSerializer_end(r[2])
      [] v[1] = "unit_variant" -> Serializer_serialize_unit_variant(lua, v[2])
      [] v[1] = "newtype_variant" -> Serializer_serialize_newtype_variant(lua, v[2], v[3])
      [] v[1] = "tuple_variant" ->
            LET r == SerializeTupleFields(Serializer_serialize_tuple_variant(lua, v[2]), v[3], 1)
            IN IF IsErr(r) THEN r ELSE TupleVariantSerializer_end(r[2])
      [] v[1] = "struct_variant" ->
            LET r == SerializeStructFields(Serializer_serialize_struct_variant(lua, v[2]), v[3], 1)
            IN IF IsErr(r) THEN r ELSE StructVariantSerializer_end(r[2])

\* pub fn to_value(lua, input) = input.serialize(Serializer { lua }).
to_value(lua, input) == Serialize(lua, input)

(***************************************************************************)
(* The decoder, src/src/de.rs.                                             *)
(***************************************************************************)
InvalidValueType == "invalid value type"
FewerElements == "invalid length, expected fewer elements in array"
SingleKey == "invalid value: map, expected map with a single key"
BadEnumValue == "bad enum value"
ValueIsMissing == "value is missing"
Utf8Error == "invalid utf-8 sequence"
FromLuaConversionError == "error converting Lua value to String"

\* fn is_seq(val: Table): walks the pairs in enumeration order.
RECURSIVE is_seq_loop(_, _, _)
is_seq_loop(ps, i, next_key) ==
    IF i > Len(ps) THEN TRUE
    ELSE IF ps[i][1] # Integer(next_key) THEN FALSE
    ELSE is_seq_loop(ps, i + 1, next_key + 1)

is_seq(val) == is_seq_loop(Pairs(val), 1, 1)

\* LuaString::to_str(): fails on bytes that are not UTF-8.
to_str(s) == IF s = BadUtf8 THEN Err(Utf8Error) ELSE Ok(s)

\* Lua's number-to-string coercion, for the numbers the model enumerates.
IntStr(i) == <<"0", "1", "2", "3", "4", "5", "6", "7", "8", "9">>[i + 1]

\* String::from_lua(key), the key conversion of pairs::<String, Value>():
\* strings and numbers coerce to a string, nothing else does.
StringFromLua(key) ==
    CASE key[1] = "string" -> to_str(key[2])
      [] key[1] = "integer" -> Ok(IntStr(key[2]))
      [] key[1] = "number" -> Ok(key[2])
      [] OTHER -> Err(FromLuaConversionError)

\* SeqDeserializer(TableSequence): self is the sequence of the values the
\* iterator has still to yield. next_element_seed returns <<item, self'>>,
\* item being <<>> for None and <<value>> for the Deserializer { value }
\* handed to the seed.
SeqDeserializer_next_element_seed(self) ==
    IF self = <<>> THEN <<<<>>, self>> ELSE <<<<Head(self)>>, Tail(self)>>

\* MapDeserializer(TablePairs, Option<Value>): self.iter is the pairs still
\* to yield, self.value the pending value (<<>> for None).
MapDeserializer_next_key_seed(self) ==
    IF self.iter = <<>> THEN <<<<>>, self>>
    ELSE <<<<Head(self.iter)[1]>>, [iter |-> Tail(self.iter), value |-> <<Head(self.iter)[2]>>]>>

\* next_value_seed returns <<result, self'>>.
MapDeserializer_next_value_seed(self) ==
    IF self.value = <<>> THEN <<Err(ValueIsMissing), self>>
    ELSE <<Ok(self.value[1]), [self EXCEPT !.value = <<>>]>>

\* A decode that returns the visitor's result without looking at what the
\* cursor has left.
check_remaining_skipped(visited, remaining) == visited

\* The end of deserialize_seq and of both table arms of deserialize_any:
\* `visitor.visit_..(&mut deserializer)?`, then remaining = iterator.count().
check_remaining(visited, remaining) ==
    IF IsErr(visited) THEN visited
    ELSE IF remaining = 0 THEN visited
    ELSE Err(FewerElements)

\* A deserialize_any that takes the empty table for a map, and any other
\* table as the classifier says.
deserialize_any_empty_as_map(value) ==
    CASE value[1] = "nil" -> <<"visit_unit">>
      [] value[1] = "boolean" -> <<"visit_bool", value[2]>>
      [] value[1] = "integer" -> <<"visit_i64", value[2]>>
      [] value[1] = "number" -> <<"visit_f64", value[2]>>
      [] value[1] = "string" ->
            LET s == to_str(value[2])
            IN IF IsErr(s) THEN s ELSE <<"visit_str", s[2]>>
      [] value[1] = "table" ->
            IF is_seq(value) /\ Pairs(value) # <<>>
            THEN <<"visit_seq", sequence_values(value)>>
            ELSE <<"visit_map", [iter |-> Pairs(value), value |-> <<>>]>>
      [] OTHER -> Err(InvalidValueType)

\* deserialize_any, up to the visitor call it makes: the visitor method and
\* its argument, or the error returned without calling the visitor.
deserialize_any(value) ==
    CASE value[1] = "nil" -> <<"visit_unit">>
      [] value[1] = "boolean" -> <<"visit_bool", value[2]>>
      [] value[1] = "integer" -> <<"visit_i64", value[2]>>
      [] value[1] = "number" -> <<"visit_f64", value[2]>>
      [] value[1] = "string" ->
            LET s == to_str(value[2])
            IN IF IsErr(s) THEN s ELSE <<"visit_str", s[2]>>
      [] value[1] = "table" ->
            IF is_seq(value)
            THEN <<"visit_seq", sequence_values(value)>>
            ELSE <<"visit_map", [iter |-> Pairs(value), value |-> <<>>]>>
      [] OTHER -> Err(InvalidValueType)

\* deserialize_option.
deserialize_option(value) ==
    IF value = Nil THEN <<"visit_none">> ELSE <<"visit_some", value>>

\* A deserialize_seq that asks the classifier first and refuses a table it
\* takes for a map.
deserialize_seq_classified(value) ==
    IF IsTable(value) /\ is_seq(value) THEN <<"visit_seq", sequence_values(value)>>
    ELSE Err(InvalidValueType)

\* deserialize_seq (deserialize_tuple and deserialize_tuple_struct call it
\* and ignore the length).
deserialize_seq(value) ==
    IF IsTable(value) THEN <<"visit_seq", sequence_values(value)>>
    ELSE Err(InvalidValueType)

\* A deserialize_enum that takes the first pair of a table and does not
\* look for a second one.
deserialize_enum_first_pair(value) ==
    CASE value[1] = "table" ->
            LET ps == Pairs(value)
            IN IF Len(ps) = 0 THEN Err(SingleKey)
               ELSE LET variant == StringFromLua(ps[1][1])
                    IN IF IsErr(variant) THEN variant
                       ELSE <<"visit_enum", variant[2], <<ps[1][2]>>>>
      [] value[1] = "string" ->
            LET variant == to_str(value[2])
            IN IF IsErr(variant) THEN variant
               ELSE <<"visit_enum", variant[2], <<>>>>
      [] OTHER -> Err(BadEnumValue)

\* deserialize_enum, up to visitor.visit_enum(EnumDeserializer { variant,
\* value }): value is <<>> for None, <<v>> for Some(v).
deserialize_enum(value) ==
    CASE value[1] = "table" ->
            LET ps == Pairs(value)
            IN IF Len(ps) = 0 THEN Err(SingleKey)
               ELSE LET variant == StringFromLua(ps[1][1])
                    IN IF IsErr(variant) THEN variant
                       ELSE IF Len(ps) > 1 THEN Err(SingleKey)
                       ELSE <<"visit_enum", variant[2], <<ps[1][2]>>>>
      [] value[1] = "string" ->
            LET variant == to_str(value[2])
            IN IF IsErr(variant) THEN variant
               ELSE <<"visit_enum", variant[2], <<>>>>
      [] OTHER -> Err(BadEnumValue)

\* VariantDeserializer { value }.
VariantDeserializer_unit_variant(value) ==
    IF value # <<>> THEN Err("invalid type: newtype variant, expected unit variant")
    ELSE Ok(<<"unit">>)

\* Some(value): the Deserializer { value } handed to the seed.
VariantDeserializer_newtype_variant_seed(value) ==
    IF value # <<>> THEN <<"seed", value[1]>>
    ELSE Err("invalid type: unit variant, expected newtype variant")

VariantDeserializer_tuple_variant(value) ==
    IF value # <<>> THEN deserialize_seq(value[1])
    ELSE Err("invalid type: unit variant, expected tuple variant")

\* deserialize_map is forwarded to deserialize_any.
VariantDeserializer_struct_variant(value) ==
    IF value # <<>> THEN deserialize_any(value[1])
    ELSE Err("invalid type: unit variant, expected struct variant")

(***************************************************************************)
(* T::deserialize(Deserializer { value }) for a type T of serde's data     *)
(* model, as from_value::<T> runs it: serde's visitor for T drives the     *)
(* decoder's entry points and cursors above. Types:                        *)
(*   <<"unit">> <<"bool">> <<"i64">> <<"f64">> <<"str">> <<"option", T>>   *)
(*   <<"vec", T>>  <<"tuple", Ts>>  <<"map", K, V>>                        *)
(*   <<"struct", <<name, T>> fields>>                                      *)
(*   <<"enum", variants>>, a variant being <<name, "unit">>,               *)
(*   <<name, "newtype", T>>, <<name, "tuple", Ts>> or                      *)
(*   <<name, "struct", fields>>.                                           *)
(* A result is Ok(typed value) or Err(message).                            *)
(***************************************************************************)
InvalidType == "invalid type"
InvalidLength == "invalid length"
MissingField == "missing field"
UnknownVariant == "unknown variant"

\* The f64 visitor's visit_i64: the integer as a float.
FloatOfInt(i) == <<"0.0", "1.0", "2.0", "3.0", "4.0", "5.0", "6.0", "7.0", "8.0", "9.0">>[i + 1]

RECURSIVE FieldIndex(_, _, _)
FieldIndex(fields, name, i) ==
    IF i > Len(fields) THEN 0
    ELSE IF fields[i][1] = name THEN i
    ELSE FieldIndex(fields, name, i + 1)

RECURSIVE Deserialize(_, _)
RECURSIVE IgnoredAny(_)
RECURSIVE IgnoreSeq(_, _)
RECURSIVE IgnoreMap(_, _)
RECURSIVE VecVisitor_visit_seq(_, _, _)
RECURSIVE TupleVisitor_visit_seq(_, _, _, _)
RECURSIVE MapVisitor_visit_map(_, _, _, _)
RECURSIVE StructVisitor_visit_seq(_, _, _, _)
RECURSIVE StructVisitor_visit_map(_, _, _)
RECURSIVE MissingFields(_, _, _)

\* serde::de::IgnoredAny, the target of a struct's unknown field: accepts
\* every visitor call and walks a sequence or map to its end.
IgnoreSeq(items, i) ==
    IF i > Len(items) THEN Ok(<<"unit">>)
    ELSE IF IsErr(IgnoredAny(items[i])) THEN IgnoredAny(items[i])
    ELSE IgnoreSeq(items, i + 1)

IgnoreMap(ps, i) ==
    IF i > Len(ps) THEN Ok(<<"unit">>)
    ELSE IF IsErr(IgnoredAny(ps[i][1])) THEN IgnoredAny(ps[i][1])
    ELSE IF IsErr(IgnoredAny(ps[i][2])) THEN IgnoredAny(ps[i][2])
    ELSE IgnoreMap(ps, i + 1)

IgnoredAny(value) ==
    LET c == deserialize_any(value)
    IN CASE IsErr(c) -> c
         [] c[1] = "visit_seq" -> IgnoreSeq(c[2], 1)
         [] c[1] = "visit_map" -> IgnoreMap(c[2].iter, 1)
         [] OTHER -> Ok(<<"unit">>)

\* Each visitor returns <<result, cursor>>: what it returns to the decoder
\* and the cursor as it leaves it.

\* Vec<T>: pulls elements until the cursor reports the end.
VecVisitor_visit_seq(T, self, acc) ==
    LET n == SeqDeserializer_next_element_seed(self)
    IN IF n[1] = <<>> THEN <<Ok(<<"seq", acc>>), n[2]>>
       ELSE LET r == Deserialize(T, n[1][1])
            IN IF IsErr(r) THEN <<r, n[2]>>
               ELSE VecVisitor_visit_seq(T, n[2], Append(acc, r[2]))

\* A tuple of Len(Ts) elements: pulls exactly that many.
TupleVisitor_visit_seq(Ts, self, acc, i) ==
    IF i > Len(Ts) THEN <<Ok(acc), self>>
    ELSE LET n == SeqDeserializer_next_element_seed(self)
         IN IF n[1] = <<>> THEN <<Err(InvalidLength), n[2]>>
            ELSE LET r == Deserialize(Ts[i], n[1][1])
                 IN IF IsErr(r) THEN <<r, n[2]>>
                    ELSE TupleVisitor_visit_seq(Ts, n[2], Append(acc, r[2]), i + 1)

\* A map: next_key then next_value until the cursor reports the end.
MapVisitor_visit_map(K, V, self, acc) ==
    LET k == MapDeserializer_next_key_seed(self)
    IN IF k[1] = <<>> THEN <<Ok(<<"map", acc>>), k[2]>>
       ELSE LET key == Deserialize(K, k[1][1])
            IN IF IsErr(key) THEN <<key, k[2]>>
               ELSE LET v == MapDeserializer_next_value_seed(k[2])
                        val == IF IsErr(v[1]) THEN v[1] ELSE Deserialize(V, v[1][2])
                    IN IF IsErr(val) THEN <<val, v[2]>>
                       ELSE MapVisitor_visit_map(K, V, v[2], Append(acc, <<key[2], val[2]>>))

\* A derived struct visitor accepts a sequence: one element per field, in
\* declaration order.
StructVisitor_visit_seq(fields, self, acc, i) ==
    IF i > Len(fields) THEN <<Ok(acc), self>>
    ELSE LET n == SeqDeserializer_next_element_seed(self)
         IN IF n[1] = <<>> THEN <<Err(InvalidLength), n[2]>>
            ELSE LET r == Deserialize(fields[i][2], n[1][1])
                 IN IF IsErr(r) THEN <<r, n[2]>>
                    ELSE StructVisitor_visit_seq(fields, n[2], Append(acc, <<fields[i][1], r[2]>>), i + 1)

\* A field no key named: None for an Option field, else an error.
MissingFields(fields, slots, i) ==
    IF i > Len(fields) THEN Ok(<<>>)
    ELSE LET rest == MissingFields(fields, slots, i + 1)
         IN IF IsErr(rest) THEN rest
            ELSE IF slots[i] # <<>> THEN Ok(<<<<fields[i][1], slots[i][1]>>>> \o rest[2])
            ELSE IF fields[i][2][1] = "option" THEN Ok(<<<<fields[i][1], <<"none">>>>>> \o rest[2])
            ELSE Err(MissingField)

\* ... and a map: the key is decoded as a field identifier (a string; any
\* other key is an error), an unknown field's value is ignored.
StructVisitor_visit_map(fields, self, slots) ==
    LET k == MapDeserializer_next_key_seed(self)
    IN IF k[1] = <<>> THEN <<MissingFields(fields, slots, 1), k[2]>>
       ELSE LET id == deserialize_any(k[1][1])
            IN IF IsErr(id) THEN <<id, k[2]>>
               ELSE IF id[1] # "visit_str" THEN <<Err(InvalidType), k[2]>>
               ELSE LET f == FieldIndex(fields, id[2], 1)
                        v == MapDeserializer_next_value_seed(k[2])
                        val == IF IsErr(v[1]) THEN v[1]
                               ELSE IF f = 0 THEN IgnoredAny(v[1][2])
                               ELSE Deserialize(fields[f][2], v[1][2])
                    IN IF IsErr(val) THEN <<val, v[2]>>
                       ELSE IF f = 0 THEN StructVisitor_visit_map(fields, v[2], slots)
                       ELSE StructVisitor_visit_map(fields, v[2], [slots EXCEPT ![f] = <<val[2]>>])

\* The struct visitor on what deserialize_any (deserialize_struct,
\* deserialize_map) calls.
StructVisitor(fields, c) ==
    CASE IsErr(c) -> c
      [] c[1] = "visit_seq" ->
            LET r == StructVisitor_visit_seq(fields, c[2], <<>>, 1)
            IN check_remaining(r[1], Len(r[2]))
      [] c[1] = "visit_map" ->
            LET r == StructVisitor_visit_map(fields, c[2], [i \in 1..Len(fields) |-> <<>>])
            IN check_remaining(r[1], Len(r[2].iter))
      [] OTHER -> Err(InvalidType)

\* The tuple visitor on what deserialize_seq calls.
TupleVisitor(Ts, c) ==
    IF IsErr(c) THEN c
    ELSE LET r == TupleVisitor_visit_seq(Ts, c[2], <<>>, 1)
         IN check_remaining(r[1], Len(r[2]))

\* A derived enum visitor's visit_enum: the variant name picks the variant,
\* whose kind picks the VariantAccess method.
EnumVisitor_visit_enum(variants, variant, value) ==
    LET i == FieldIndex(variants, variant, 1)
    IN IF i = 0 THEN Err(UnknownVariant)
       ELSE LET d == variants[i]
            IN CASE d[2] = "unit" ->
                      LET r == VariantDeserializer_unit_variant(value)
                      IN IF IsErr(r) THEN r ELSE Ok(<<"unit_variant", variant>>)
                 [] d[2] = "newtype" ->
                      LET s == VariantDeserializer_newtype_variant_seed(value)
                          r == IF IsErr(s) THEN s ELSE Deserialize(d[3], s[2])
                      IN IF IsErr(r) THEN r ELSE Ok(<<"newtype_variant", variant, r[2]>>)
                 [] d[2] = "tuple" ->
                      LET r == TupleVisitor(d[3], VariantDeserializer_tuple_variant(value))
                      IN IF IsErr(r) THEN r ELSE Ok(<<"tuple_variant", variant, r[2]>>)
                 [] d[2] = "struct" ->
                      LET r == StructVisitor(d[3], VariantDeserializer_struct_variant(value))
                      IN IF IsErr(r) THEN r ELSE Ok(<<"struct_variant", variant, r[2]>>)

Deserialize(T, value) ==
    CASE T[1] = "unit" ->
            LET c == deserialize_any(value)
            IN IF IsErr(c) THEN c
               ELSE IF c[1] = "visit_unit" THEN Ok(<<"unit">>) ELSE Err(InvalidType)
      [] T[1] = "bool" ->
            LET c == deserialize_any(value)
            IN IF IsErr(c) THEN c
               ELSE IF c[1] = "visit_bool" THEN Ok(<<"bool", c[2]>>) ELSE Err(InvalidType)
      [] T[1] = "i64" ->
            LET c == deserialize_any(value)
            IN IF IsErr(c) THEN c
               ELSE IF c[1] = "visit_i64" THEN Ok(<<"i64", c[2]>>) ELSE Err(InvalidType)
      [] T[1] = "f64" ->
            LET c == deserialize_any(value)
            IN IF IsErr(c) THEN c
               ELSE IF c[1] = "visit_f64" THEN Ok(<<"f64", c[2]>>)
               ELSE IF c[1] = "visit_i64" THEN Ok(<<"f64", FloatOfInt(c[2])>>)
               ELSE Err(InvalidType)
      [] T[1] = "str" ->
            LET c == deserialize_any(value)
            IN IF IsErr(c) THEN c
               ELSE IF c[1] = "visit_str" THEN Ok(<<"str", c[2]>>) ELSE Err(InvalidType)
      [] T[1] = "option" ->
            LET c == deserialize_option(value)
            IN IF c[1] = "visit_none" THEN Ok(<<"none">>)
               ELSE LET r == Deserialize(T[2], c[2])
                    IN IF IsErr(r) THEN r ELSE Ok(<<"some", r[2]>>)
      [] T[1] = "vec" ->
            LET c == deserialize_seq(value)
            IN IF IsErr(c) THEN c
               ELSE LET r == VecVisitor_visit_seq(T[2], c[2], <<>>)
                    IN check_remaining(r[1], Len(r[2]))
      [] T[1] = "tuple" ->
            LET r == TupleVisitor(T[2], deserialize_seq(value))
            IN IF IsErr(r) THEN r ELSE Ok(<<"tuple", r[2]>>)
      [] T[1] = "map" ->
            LET c == deserialize_any(value)
            IN IF IsErr(c) THEN c
               ELSE IF c[1] # "visit_map" THEN Err(InvalidType)
               ELSE LET r == MapVisitor_visit_map(T[2], T[3], c[2], <<>>)
                    IN check_remaining(r[1], Len(r[2].iter))
      [] T[1] = "struct" ->
            LET r == StructVisitor(T[2], deserialize_any(value))
            IN IF IsErr(r) THEN r ELSE Ok(<<"struct", r[2]>>)
      [] T[1] = "enum" ->
            LET c == deserialize_enum(value)
            IN IF IsErr(c) THEN c ELSE EnumVisitor_visit_enum(T[2], c[2], c[3])

\* pub fn from_value::<T>(value) = T::deserialize(Deserializer::from_value(value)).
from_value(T, value) == Deserialize(T, value)

(***************************************************************************)
(* The inputs the model enumerates.                                        *)
(***************************************************************************)
SeqsUpTo(S, n) == UNION {[1..k -> S] : k \in 0..n}

DistinctKeys(ps) == \A i, j \in 1..Len(ps) : ps[i][1] = ps[j][1] => i = j

\* The memory the runtime has when an encoding starts.
LuaStates == (0..MaxAlloc) \cup {NoLimit}

TUnit == <<"unit">>
TBool == <<"bool">>
TI64 == <<"i64">>
TF64 == <<"f64">>
TStr == <<"str">>
TOption(T) == <<"option", T>>
TVec(T) == <<"vec", T>>

\* struct P { x: i64, y: Option<i64> } and struct Q { y: Option<i64> }.
PFields == <<<<"x", TI64>>, <<"y", TOption(TI64)>>>>
QFields == <<<<"y", TOption(TI64)>>>>
\* enum E { A, B(Option<i64>), T(i64, String), S { x: i64, y: Option<i64> } }.
EVariants ==
    << <<"A", "unit">>, <<"B", "newtype", TOption(TI64)>>,
       <<"T", "tuple", <<TI64, TStr>>>>, <<"S", "struct", PFields>> >>

Types ==
    { TUnit, TBool, TI64, TStr, TOption(TI64), TOption(TOption(TI64)),
      TVec(TI64), TVec(TOption(TI64)), TVec(TUnit), <<"tuple", <<TI64, TStr>>>>,
      <<"map", TStr, TI64>>, <<"map", TI64, TStr>>, <<"map", TOption(TI64), TI64>>,
      <<"map", TF64, TI64>>, <<"struct", PFields>>, <<"struct", QFields>>,
      <<"enum", EVariants>> }

RECURSIVE ValuesOf(_)
RECURSIVE TupleValues(_, _)
RECURSIVE FieldValues(_, _)

\* The value sequences of the element types Ts[i..].
TupleValues(Ts, i) ==
    IF i > Len(Ts) THEN {<<>>}
    ELSE {<<v>> \o rest : v \in ValuesOf(Ts[i]), rest \in TupleValues(Ts, i + 1)}

FieldValues(fields, i) ==
    IF i > Len(fields) THEN {<<>>}
    ELSE {<<<<fields[i][1], v>>>> \o rest :
            v \in ValuesOf(fields[i][2]), rest \in FieldValues(fields, i + 1)}

VariantValues(d) ==
    CASE d[2] = "unit" -> {<<"unit_variant", d[1]>>}
      [] d[2] = "newtype" -> {<<"newtype_variant", d[1], v>> : v \in ValuesOf(d[3])}
      [] d[2] = "tuple" -> {<<"tuple_variant", d[1], vs>> : vs \in TupleValues(d[3], 1)}
      [] d[2] = "struct" -> {<<"struct_variant", d[1], fs>> : fs \in FieldValues(d[3], 1)}

\* The values of type T the model enumerates.
ValuesOf(T) ==
    CASE T[1] = "unit" -> {<<"unit">>}
      [] T[1] = "bool" -> {<<"bool", b>> : b \in BOOLEAN}
      [] T[1] = "i64" -> {<<"i64", i>> : i \in 1..2}
      [] T[1] = "f64" -> {<<"f64", "1.5">>, <<"f64", "nan">>}
      [] T[1] = "str" -> {<<"str", "A">>, <<"str", "x">>}
      [] T[1] = "option" -> {<<"none">>} \cup {<<"some", v>> : v \in ValuesOf(T[2])}
      [] T[1] = "vec" -> {<<"seq", vs>> : vs \in SeqsUpTo(ValuesOf(T[2]), MaxLen)}
      [] T[1] = "tuple" -> {<<"tuple", vs>> : vs \in TupleValues(T[2], 1)}
      [] T[1] = "map" ->
            {<<"map", ps>> : ps \in {qs \in SeqsUpTo(ValuesOf(T[2]) \X ValuesOf(T[3]), MaxLen) :
                                        DistinctKeys(qs)}}
      [] T[1] = "struct" -> {<<"struct", fs>> : fs \in FieldValues(T[2], 1)}
      [] T[1] = "enum" -> UNION {VariantValues(T[2][i]) : i \in 1..Len(T[2])}

TypedInputs == UNION {{<<T, v>> : v \in ValuesOf(T)} : T \in Types}

\* What a caller feeds a compound serializer.
ElemValues == {<<"i64", 1>>, <<"str", "A">>, <<"none">>, <<"some", <<"i64", 2>>>>}
KeyValues == {<<"str", "A">>, <<"i64", 1>>, <<"none">>}
EntryValues == {<<"i64", 1>>, <<"none">>}
VariantNames == {"A"}
FieldNames == {"x", "y"}

\* The Lua values handed to the decoder. A table's pairs are enumerated in
\* any order; the value stored under a key is the key itself, which tells
\* the entries apart.
TableKeys == {Integer(i) : i \in 0..4} \cup {String("A"), Boolean(TRUE)}
FlatTables ==
    {Table([i \in 1..Len(ks) |-> <<ks[i], ks[i]>>]) :
        ks \in {qs \in SeqsUpTo(TableKeys, MaxLen) : \A i, j \in 1..Len(qs) : qs[i] = qs[j] => i = j}}
Atoms == {Nil, Boolean(TRUE), Integer(1), Number("1.5"), String("A"), String(BadUtf8), Function}
\* Tables of the shape of an enum: one entry, under each kind of key, with
\* each kind of payload.
Payloads ==
    (Atoms \ {Nil}) \cup
    { Table(<<>>), Table(<<<<Integer(1), Integer(5)>>, <<Integer(2), Integer(6)>>>>),
      Table(<<<<String("x"), Integer(5)>>>>),
      Table(<<<<Integer(1), Integer(5)>>, <<String("x"), Integer(6)>>>>) }
VariantTables ==
    {Table(<<<<k, p>>>>) : k \in {String("A"), String(BadUtf8), Integer(1), Boolean(TRUE)}, p \in Payloads}
LuaValues == Atoms \cup FlatTables \cup VariantTables

(***************************************************************************)
(* The state: one call of the public API at a time, with the compound      *)
(* serializer or the cursor it leaves in its caller's hands.               *)
(***************************************************************************)
VARIABLES
    ser,    \* the compound serializer the caller holds: [kind, self]
    fed,    \* what the caller has passed to it since its construction
    out,    \* the encoder's last return: [op, r]
    de,     \* the access object the visitor holds: [kind, via, src, self]
    got,    \* what it has returned to the visitor since its construction
    res,    \* the decoder's last return: [op, arg, r]
    rt      \* the last to_value / from_value: [op, T, v, lua, out, back]

vars == <<ser, fed, out, de, got, res, rt>>

None == <<"none">>
NoSer == [kind |-> "none", self |-> None]
NoOut == [op |-> "none", r |-> None]
NoDe == [kind |-> "none", via |-> "none", src |-> None, self |-> None]
NoRes == [op |-> "none", arg |-> None, r |-> None]
NoRt == [op |-> "none", T |-> None, v |-> None, lua |-> 0, out |-> None, back |-> None]

Init ==
    /\ ser = NoSer /\ fed = <<>> /\ out = NoOut
    /\ de = NoDe /\ got = <<>> /\ res = NoRes
    /\ rt = NoRt

\* No call has been made, or the last call's results were dropped: a new
\* call may start.
Idle ==
    /\ ser.kind = "none" /\ out.op = "none"
    /\ de.kind = "none" /\ res.op = "none"
    /\ rt.op = "none"

\* A serializer or a cursor is in its caller's hands.
InSession == ser.kind # "none" \/ de.kind \notin {"none", "done"}

\* The caller drops what the last call left (its result, or a serializer or
\* cursor it no longer uses).
Drop ==
    /\ ~Idle
    /\ ser' = NoSer /\ fed' = <<>> /\ out' = NoOut
    /\ de' = NoDe /\ got' = <<>> /\ res' = NoRes
    /\ rt' = NoRt

EncoderIdle == ser' = NoSer /\ fed' = <<>> /\ out' = NoOut
DecoderIdle == de' = NoDe /\ got' = <<>> /\ res' = NoRes

(***************************************************************************)
(* to_value and from_value on typed values.                                *)
(***************************************************************************)
ToValue ==
    /\ Idle
    /\ \E tv \in TypedInputs : \E lua \in LuaStates :
          rt' = [op |-> "to_value", T |-> tv[1], v |-> tv[2], lua |-> lua,
                 out |-> to_value(lua, tv[2]), back |-> None]
    /\ EncoderIdle /\ DecoderIdle

\* The value to_value returned, decoded into the type it came from.
FromValue ==
    /\ rt.op = "to_value"
    /\ IsOk(rt.out)
    /\ rt' = [rt EXCEPT !.op = "from_value", !.back = from_value(rt.T, rt.out[2])]
    /\ EncoderIdle /\ DecoderIdle

(***************************************************************************)
(* The encoder's compound serializers, driven call by call.                *)
(***************************************************************************)
\* The caller's `?`: an error ends the session, Ok(self') continues it.
SerStep(kind, op, r) ==
    /\ out' = [op |-> op, r |-> IF IsOk(r) THEN Ok(None) ELSE r]
    /\ ser' = IF IsOk(r) THEN [kind |-> kind, self |-> r[2]] ELSE NoSer

SerEnd(op, r) ==
    /\ out' = [op |-> op, r |-> r]
    /\ ser' = NoSer
    /\ UNCHANGED fed

\* serialize_seq, serialize_tuple, serialize_tuple_struct.
SerializeSeq ==
    /\ Idle
    /\ \E lua \in LuaStates : SerStep("seq", "serialize_seq", Serializer_serialize_seq(lua))
    /\ fed' = <<>>
    /\ rt' = NoRt /\ DecoderIdle

SerializeElement ==
    /\ ser.kind = "seq"
    /\ Len(fed) < MaxLen
    /\ \E value \in ElemValues :
          /\ SerStep("seq", "serialize_element", SeqSerializer_serialize_element(ser.self, value))
          /\ fed' = Append(fed, value)
    /\ UNCHANGED <<de, got, res, rt>>

SeqEnd ==
    /\ ser.kind = "seq"
    /\ SerEnd("SeqSerializer::end", SeqSerializer_end(ser.self))
    /\ UNCHANGED <<de, got, res, rt>>

SerializeTupleVariant ==
    /\ Idle
    /\ \E lua \in LuaStates : \E variant \in VariantNames :
          SerStep("tuple_variant", "serialize_tuple_variant",
                  Serializer_serialize_tuple_variant(lua, variant))
    /\ fed' = <<>>
    /\ rt' = NoRt /\ DecoderIdle

TupleVariantField ==
    /\ ser.kind = "tuple_variant"
    /\ Len(fed) < MaxLen
    /\ \E value \in ElemValues :
          /\ SerStep("tuple_variant", "serialize_field",
                     TupleVariantSerializer_serialize_field(ser.self, value))
          /\ fed' = Append(fed, value)
    /\ UNCHANGED <<de, got, res, rt>>

TupleVariantEnd ==
    /\ ser.kind = "tuple_variant"
    /\ SerEnd("TupleVariantSerializer::end", TupleVariantSerializer_end(ser.self))
    /\ UNCHANGED <<de, got, res, rt>>

\* serialize_map, serialize_struct.
SerializeMap ==
    /\ Idle
    /\ \E lua \in LuaStates : SerStep("map", "serialize_map", Serializer_serialize_map(lua))
    /\ fed' = <<>>
    /\ rt' = NoRt /\ DecoderIdle

SerializeKey ==
    /\ ser.kind = "map"
    /\ Len(fed) < MaxLen
    /\ \E key \in KeyValues :
          /\ SerStep("map", "serialize_key", MapSerializer_serialize_key(ser.self, key))
          /\ fed' = Append(fed, <<"key", key>>)
    /\ UNCHANGED <<de, got, res, rt>>

SerializeValue ==
    /\ ser.kind = "map"
    /\ Len(fed) < MaxLen
    /\ \E value \in EntryValues :
          /\ SerStep("map", "serialize_value", MapSerializer_serialize_value(ser.self, value))
          /\ fed' = Append(fed, <<"value", value>>)
    /\ UNCHANGED <<de, got, res, rt>>

\* serialize_entry, SerializeStruct::serialize_field.
SerializeEntry ==
    /\ ser.kind = "map"
    /\ Len(fed) < MaxLen
    /\ \E key \in KeyValues : \E value \in EntryValues :
          /\ SerStep("map", "serialize_entry",
                     MapSerializer_serialize_entry(ser.self, key, value))
          /\ fed' = Append(fed, <<"entry", key, value>>)
    /\ UNCHANGED <<de, got, res, rt>>

MapEnd ==
    /\ ser.kind = "map"
    /\ SerEnd("MapSerializer::end", MapSerializer_end(ser.self))
    /\ UNCHANGED <<de, got, res, rt>>

SerializeStructVariant ==
    /\ Idle
    /\ \E lua \in LuaStates : \E variant \in VariantNames :
          SerStep("struct_variant", "serialize_struct_variant",
                  Serializer_serialize_struct_variant(lua, variant))
    /\ fed' = <<>>
    /\ rt' = NoRt /\ DecoderIdle

StructVariantField ==
    /\ ser.kind = "struct_variant"
    /\ Len(fed) < MaxLen
    /\ \E key \in FieldNames : \E value \in EntryValues :
          /\ SerStep("struct_variant", "serialize_field",
                     StructVariantSerializer_serialize_field(ser.self, key, value))
          /\ fed' = Append(fed, <<key, value>>)
    /\ UNCHANGED <<de, got, res, rt>>

StructVariantEnd ==
    /\ ser.kind = "struct_variant"
    /\ SerEnd("StructVariantSerializer::end", StructVariantSerializer_end(ser.self))
    /\ UNCHANGED <<de, got, res, rt>>

(***************************************************************************)
(* The decoder's entry points, and its cursors driven call by call by an   *)
(* arbitrary visitor.                                                      *)
(***************************************************************************)
\* What the entry point's visitor call c leaves: an error or a primitive
\* visit is the call's return; visit_seq / visit_map hand the visitor a
\* cursor over src.
Dispatch(op, via, arg, src, c) ==
    /\ res' = [op |-> op, arg |-> arg,
               r |-> IF c[1] \in {"visit_seq", "visit_map"} THEN <<c[1]>> ELSE c]
    /\ de' = CASE c[1] = "visit_seq" -> [kind |-> "seq", via |-> via, src |-> src, self |-> c[2]]
               [] c[1] = "visit_map" -> [kind |-> "map", via |-> via, src |-> src, self |-> c[2]]
               [] OTHER -> NoDe
    /\ got' = <<>>

\* deserialize_any and what forwards to it (deserialize_map,
\* deserialize_struct, the primitives, ...).
DeserializeAny ==
    /\ Idle
    /\ \E value \in LuaValues :
          Dispatch("deserialize_any", "deserialize_any", value, value, deserialize_any(value))
    /\ rt' = NoRt /\ EncoderIdle

\* deserialize_seq, deserialize_tuple, deserialize_tuple_struct.
DeserializeSeq ==
    /\ Idle
    /\ \E value \in LuaValues :
          Dispatch("deserialize_seq", "deserialize_seq", value, value, deserialize_seq(value))
    /\ rt' = NoRt /\ EncoderIdle

DeserializeOption ==
    /\ Idle
    /\ \E value \in LuaValues :
          res' = [op |-> "deserialize_option", arg |-> value, r |-> deserialize_option(value)]
    /\ de' = NoDe /\ got' = <<>>
    /\ rt' = NoRt /\ EncoderIdle

\* The visitor pulls the next element.
NextElementSeed ==
    /\ de.kind = "seq"
    /\ Len(got) <= MaxLen
    /\ LET n == SeqDeserializer_next_element_seed(de.self)
       IN /\ de' = [de EXCEPT !.self = n[2]]
          /\ got' = Append(got, n[1])
    /\ UNCHANGED <<ser, fed, out, res, rt>>

NextKeySeed ==
    /\ de.kind = "map"
    /\ Len(got) <= MaxLen
    /\ LET n == MapDeserializer_next_key_seed(de.self)
       IN /\ de' = [de EXCEPT !.self = n[2]]
          /\ got' = Append(got, <<"key", n[1]>>)
    /\ UNCHANGED <<ser, fed, out, res, rt>>

NextValueSeed ==
    /\ de.kind = "map"
    /\ Len(got) <= MaxLen
    /\ LET n == MapDeserializer_next_value_seed(de.self)
       IN /\ de' = [de EXCEPT !.self = n[2]]
          /\ got' = Append(got, <<"value", n[1]>>)
    /\ UNCHANGED <<ser, fed, out, res, rt>>

\* The visitor returns from visit_seq / visit_map, with a value (ok) or an
\* error; the entry point then counts what the cursor has left.
VisitorReturn ==
    /\ de.kind \in {"seq", "map"}
    /\ \E ok \in BOOLEAN :
          LET visited == IF ok THEN Ok(<<"visited">>) ELSE Err("visitor error")
              remaining == IF de.kind = "seq" THEN Len(de.self) ELSE Len(de.self.iter)
          IN res' = [op |-> IF de.kind = "seq" THEN "visit_seq" ELSE "visit_map",
                     arg |-> visited, r |-> check_remaining(visited, remaining)]
    /\ de' = [de EXCEPT !.kind = "done", !.self = None]
    /\ UNCHANGED <<ser, fed, out, got, rt>>

\* deserialize_enum: an error, or visitor.visit_enum(EnumDeserializer).
DeserializeEnum ==
    /\ Idle
    /\ \E value \in LuaValues :
          LET c == deserialize_enum(value)
          IN /\ res' = [op |-> "deserialize_enum", arg |-> value, r |-> c]
             /\ de' = IF IsErr(c) THEN NoDe
                      ELSE [kind |-> "enum", via |-> "deserialize_enum", src |-> value,
                            self |-> <<c[2], c[3]>>]
    /\ got' = <<>>
    /\ rt' = NoRt /\ EncoderIdle

\* EnumDeserializer::variant_seed: the seed decodes the variant name (known
\* to the visitor's enum or not) and the visitor gets the VariantDeserializer.
VariantSeed ==
    /\ de.kind = "enum"
    /\ \E known \in BOOLEAN :
          IF known
          THEN /\ de' = [de EXCEPT !.kind = "variant"]
               /\ res' = [op |-> "variant_seed", arg |-> de.src,
                          r |-> Ok(<<"variant", de.self[1]>>)]
          ELSE /\ de' = NoDe
               /\ res' = [op |-> "variant_seed", arg |-> de.src, r |-> Err(UnknownVariant)]
    /\ UNCHANGED <<ser, fed, out, got, rt>>

\* The VariantAccess call the visitor makes; arg is the payload the
\* VariantDeserializer holds (<<>> for None).
UnitVariant ==
    /\ de.kind = "variant"
    /\ res' = [op |-> "unit_variant", arg |-> de.self[2],
               r |-> VariantDeserializer_unit_variant(de.self[2])]
    /\ de' = NoDe
    /\ UNCHANGED <<ser, fed, out, got, rt>>

NewtypeVariantSeed ==
    /\ de.kind = "variant"
    /\ res' = [op |-> "newtype_variant_seed", arg |-> de.self[2],
               r |-> VariantDeserializer_newtype_variant_seed(de.self[2])]
    /\ de' = NoDe
    /\ UNCHANGED <<ser, fed, out, got, rt>>

TupleVariant ==
    /\ de.kind = "variant"
    /\ Dispatch("tuple_variant", "tuple_variant", de.self[2],
                IF de.self[2] = <<>> THEN None ELSE de.self[2][1],
                VariantDeserializer_tuple_variant(de.self[2]))
    /\ UNCHANGED <<ser, fed, out, rt>>

StructVariant ==
    /\ de.kind = "variant"
    /\ Dispatch("struct_variant", "struct_variant", de.self[2],
                IF de.self[2] = <<>> THEN None ELSE de.self[2][1],
                VariantDeserializer_struct_variant(de.self[2]))
    /\ UNCHANGED <<ser, fed, out, rt>>

Next ==
    \/ ToValue
    \/ FromValue
    \/ SerializeSeq
    \/ SerializeElement
    \/ SeqEnd
    \/ SerializeTupleVariant
    \/ TupleVariantField
    \/ TupleVariantEnd
    \/ SerializeMap
    \/ SerializeKey
    \/ SerializeValue
    \/ SerializeEntry
    \/ MapEnd
    \/ SerializeStructVariant
    \/ StructVariantField
    \/ StructVariantEnd
    \/ DeserializeAny
    \/ DeserializeSeq
    \/ DeserializeOption
    \/ NextElementSeed
    \/ NextKeySeed
    \/ NextValueSeed
    \/ VisitorReturn
    \/ DeserializeEnum
    \/ VariantSeed
    \/ UnitVariant
    \/ NewtypeVariantSeed
    \/ TupleVariant
    \/ StructVariant
    \/ Drop

Spec == Init /\ [][Next]_vars

(***************************************************************************)
(* The vocabulary of the properties.                                       *)
(***************************************************************************)
\* The table's key set is exactly the integers 1..N, N its number of pairs.
SequenceShaped(t) == KeysOf(t) = {Integer(i) : i \in 1..Len(Pairs(t))}

\* The number of values of the table's contiguous prefix 1, 2, ...
PrefixLen(t) == Cardinality({i \in 1..Len(Pairs(t)) : \A j \in 1..i : Integer(j) \in KeysOf(t)})

\* The value's encoding, memory permitting.
Encoding(v) == to_value(NoLimit, v)[2]

\* The value encodes to Nil: unit, None, and Some of such a value.
RECURSIVE EncodesNil(_)
EncodesNil(v) ==
    \/ v[1] \in {"unit", "none"}
    \/ v[1] = "some" /\ EncodesNil(v[2])

\* The key is one table.set rejects: it encodes to Nil or to NaN.
RejectedKey(k) == EncodesNil(k) \/ k = <<"f64", "nan">>

\* The first map key table.set rejects, if any, among the enumerated maps
\* (which hold no map inside a key or a value).
HasRejectedKey(v) == v[1] = "map" /\ \E i \in 1..Len(v[2]) : RejectedKey(v[2][i][1])

(***************************************************************************)
(* C1. Round trip: from_value(to_value(v)), decoded into v's own type,     *)
(* succeeds and returns v, for every v with no nested Option<Option<_>>.   *)
(* The code breaks it: an empty map, a map keyed 1..N, a sequence holding  *)
(* None or unit, a struct whose fields are all None, and a newtype variant *)
(* of None do not come back.                                               *)
(***************************************************************************)
C1_RoundTrip ==
    (rt.op = "from_value" /\ rt.T # TOption(TOption(TI64))) => rt.back = Ok(rt.v)

(***************************************************************************)
(* C2. The classifier answers Sequence exactly when the table's key set is *)
(* 1..N, whatever the order in which the keys are enumerated. The code     *)
(* walks the pairs in enumeration order, so keys 1..N enumerated in        *)
(* another order classify as Map.                                          *)
(***************************************************************************)
C2_ClassifiedByKeySet ==
    (res.op = "deserialize_any" /\ IsTable(res.arg)) =>
        ((res.r = <<"visit_seq">>) <=> SequenceShaped(res.arg))

(***************************************************************************)
(* C3. Enum decode, as claimed: a String is a variant name without         *)
(* payload; a Table with exactly one pair gives variant name = the key and *)
(* payload = the value; a Table with zero or with two or more pairs fails  *)
(* with the "map with a single key" error; any other value fails.          *)
(***************************************************************************)
C3_EnumDecodeAsClaimed ==
    res.op = "deserialize_enum" =>
        LET a == res.arg
            r == res.r
        IN CASE a[1] = "string" -> r = <<"visit_enum", a[2], <<>>>>
             [] a[1] = "table" /\ Len(Pairs(a)) = 1 ->
                    /\ r[1] = "visit_enum"
                    /\ String(r[2]) = Pairs(a)[1][1]
                    /\ r[3] = <<Pairs(a)[1][2]>>
             [] a[1] = "table" /\ Len(Pairs(a)) # 1 -> r = Err(SingleKey)
             [] OTHER -> IsErr(r)

\* The string a key converts to: a UTF-8 string as it is, a number by its
\* decimal form; <<>> for a key that does not convert.
KeyName(k) ==
    CASE k[1] = "string" /\ k[2] # BadUtf8 -> <<k[2]>>
      [] k[1] = "integer" -> <<IntStr(k[2])>>
      [] k[1] = "number" -> <<k[2]>>
      [] OTHER -> <<>>

(***************************************************************************)
(* C3, amended. A UTF-8 String is a variant name without payload. Of a     *)
(* Table the first enumerated key is converted to a string: when it does   *)
(* not convert (a boolean, a table, a string that is not UTF-8) the decode *)
(* fails with the conversion error, whatever the number of pairs; when it  *)
(* converts, exactly one pair gives variant name = the converted key and   *)
(* payload = the value, and two or more pairs fail with the "map with a    *)
(* single key" error, as does a Table with zero pairs. Any other value     *)
(* fails with "bad enum value".                                            *)
(***************************************************************************)
C3_EnumDecode ==
    res.op = "deserialize_enum" =>
        LET a == res.arg
            r == res.r
        IN CASE a[1] = "string" ->
                    IF a[2] = BadUtf8 THEN r = Err(Utf8Error)
                    ELSE r = <<"visit_enum", a[2], <<>>>>
             [] a[1] = "table" /\ Len(Pairs(a)) = 0 -> r = Err(SingleKey)
             [] a[1] = "table" /\ Len(Pairs(a)) > 0 ->
                    LET name == KeyName(Pairs(a)[1][1])
                    IN IF name = <<>> THEN IsErr(r) /\ r # Err(SingleKey)
                       ELSE IF Len(Pairs(a)) = 1
                            THEN r = <<"visit_enum", name[1], <<Pairs(a)[1][2]>>>>
                       ELSE r = Err(SingleKey)
             [] OTHER -> r = Err(BadEnumValue)

\* A table of two pairs whose first key is a boolean fails with the
\* conversion error.
C3_Witness ==
    /\ res.op = "deserialize_enum"
    /\ IsTable(res.arg)
    /\ Len(Pairs(res.arg)) = 2
    /\ Pairs(res.arg)[1][1] = Boolean(TRUE)
    /\ res.r = Err(FromLuaConversionError)

\* What the cursor has not yielded when the visitor returns: the elements
\* of the table's prefix 1, 2, ... (a sequence cursor) or its pairs (a map
\* cursor), less those it has returned.
Unconsumed ==
    IF res.op = "visit_seq"
    THEN PrefixLen(de.src) - Cardinality({i \in 1..Len(got) : got[i] # <<>>})
    ELSE Len(Pairs(de.src)) - Cardinality({i \in 1..Len(got) : got[i][1] = "key" /\ got[i][2] # <<>>})

(***************************************************************************)
(* C4. Leftover rejection: when the visitor of a sequence decode or of a   *)
(* map decode has returned successfully, the decode succeeds if and only   *)
(* if the cursor has nothing left, and otherwise fails with the "fewer     *)
(* elements" error.                                                        *)
(***************************************************************************)
C4_LeftoverRejected ==
    (res.op \in {"visit_seq", "visit_map"} /\ IsOk(res.arg)) =>
        /\ IsOk(res.r) <=> Unconsumed = 0
        /\ Unconsumed > 0 => res.r = Err(FewerElements)

\* Keys 1, 2, 3 of which the visitor took two, as a 2-tuple does.
C4_Witness ==
    /\ res.op = "visit_seq"
    /\ de.via = "deserialize_seq"
    /\ IsOk(res.arg)
    /\ KeysOf(de.src) = {Integer(1), Integer(2), Integer(3)}
    /\ got = <<<<Integer(1)>>, <<Integer(2)>>>>
    /\ res.r = Err(FewerElements)

(***************************************************************************)
(* C5. A sequence of N elements encodes to a table whose keys are exactly  *)
(* 1..N, the value at key i being the i-th element's encoding. The code    *)
(* stores no element that encodes to Nil (None, unit): the key is missing  *)
(* and the elements after it are cut off from the prefix.                  *)
(***************************************************************************)
C5_SeqKeys ==
    (out.op = "SeqSerializer::end" /\ IsOk(out.r)) =>
        /\ KeysOf(out.r[2]) = {Integer(i) : i \in 1..Len(fed)}
        /\ \A i \in 1..Len(fed) : TableGet(out.r[2], Integer(i)) = Encoding(fed[i])

(***************************************************************************)
(* C6. A unit variant encodes to the String of its name; a newtype, tuple  *)
(* or struct variant encodes to a table with exactly one entry, the        *)
(* variant name and the payload's encoding. The code builds an empty table *)
(* for a newtype variant whose payload encodes to Nil.                     *)
(***************************************************************************)
C6_VariantTable ==
    (rt.op = "to_value" /\ IsOk(rt.out)) =>
        CASE rt.v[1] = "unit_variant" -> rt.out[2] = String(rt.v[2])
          [] rt.v[1] = "newtype_variant" ->
                Pairs(rt.out[2]) = <<<<String(rt.v[2]), Encoding(rt.v[3])>>>>
          [] rt.v[1] = "tuple_variant" ->
                Pairs(rt.out[2]) = <<<<String(rt.v[2]), Encoding(<<"seq", rt.v[3]>>)>>>>
          [] rt.v[1] = "struct_variant" ->
                Pairs(rt.out[2]) = <<<<String(rt.v[2]), Encoding(<<"struct", rt.v[3]>>)>>>>
          [] OTHER -> TRUE

(***************************************************************************)
(* C7. The table MapSerializer::end returns is classified as Map. The code *)
(* returns a table the classifier takes for a Sequence when the map is     *)
(* empty, when all its values encode to Nil, or when its keys are 1..N in  *)
(* order.                                                                  *)
(***************************************************************************)
C7_MapClassifiedAsMap ==
    (out.op = "MapSerializer::end" /\ IsOk(out.r)) => ~is_seq(out.r[2])

\* A payload of map shape: a table that is not of sequence shape, or is
\* empty (the empty table is both).
MapShaped(v) == IsTable(v) /\ (~SequenceShaped(v) \/ Pairs(v) = <<>>)

(***************************************************************************)
(* C8. Variant kinds: unit_variant fails on a payload; newtype_variant,    *)
(* tuple_variant and struct_variant fail without one; tuple_variant hands  *)
(* the visitor a sequence only for a payload that is a sequence, and       *)
(* struct_variant a sequence or a map only for a payload that is a map.    *)
(* The code runs the sequence decode on any table (a map's entries are     *)
(* ignored) and the self-describing decode on a struct variant's payload   *)
(* (a sequence is handed to the struct visitor, which takes it).           *)
(***************************************************************************)
C8_VariantKindChecked ==
    /\ (res.op = "unit_variant" /\ res.arg # <<>>) => IsErr(res.r)
    /\ (res.op \in {"newtype_variant_seed", "tuple_variant", "struct_variant"} /\ res.arg = <<>>)
            => IsErr(res.r)
    /\ (res.op = "tuple_variant" /\ res.arg # <<>> /\ res.r = <<"visit_seq">>)
            => (IsTable(res.arg[1]) /\ SequenceShaped(res.arg[1]))
    /\ (res.op = "struct_variant" /\ res.arg # <<>> /\ res.r[1] \in {"visit_seq", "visit_map"})
            => MapShaped(res.arg[1])

\* A key is pending after the calls cs: a serialize_key not followed by a
\* serialize_value.
KeyPending(cs) ==
    \E i \in 1..Len(cs) : cs[i][1] = "key" /\ \A j \in (i + 1)..Len(cs) : cs[j][1] # "value"

(***************************************************************************)
(* C9. As claimed: encoding fails only when the runtime cannot allocate.   *)
(***************************************************************************)
C9_OnlyAllocationFails ==
    /\ (rt.op = "to_value" /\ ~IsOk(rt.out)) => rt.out = Err(MemoryError)
    /\ (out.op # "none" /\ ~IsOk(out.r)) => out.r = Err(MemoryError)

(***************************************************************************)
(* C9, amended. Encoding fails only by a failure of the runtime: when no   *)
(* allocation fails, to_value returns Ok unless a map has a key that       *)
(* encodes to Nil (an absent or unit key) or to NaN, which table.set       *)
(* rejects, and then it returns that error; a compound serializer's call   *)
(* fails only with one of these errors, and serialize_value panics when    *)
(* and only when no key is pending.                                        *)
(***************************************************************************)
C9_OnlyRuntimeFails ==
    /\ rt.op = "to_value" =>
          /\ rt.out[1] \in {"Ok", "Err"}
          /\ IsErr(rt.out) => rt.out[2] \in {MemoryError, NilIndexError, NanIndexError}
          /\ (IsErr(rt.out) /\ rt.out[2] # MemoryError) => HasRejectedKey(rt.v)
          /\ rt.lua = NoLimit => (IsOk(rt.out) <=> ~HasRejectedKey(rt.v))
    /\ out.op # "none" =>
          /\ IsErr(out.r) => out.r[2] \in {MemoryError, NilIndexError, NanIndexError}
          /\ out.r[1] = "Panic" =>
                (out.op = "serialize_value" /\ ~KeyPending(SubSeq(fed, 1, Len(fed) - 1)))
          /\ (out.op = "serialize_value" /\ ~KeyPending(SubSeq(fed, 1, Len(fed) - 1)))
                => ~IsOk(out.r)

\* A map with an absent key, encoded by a runtime that has the memory.
C9_Witness ==
    /\ rt.op = "to_value"
    /\ rt.lua = NoLimit
    /\ rt.v[1] = "map"
    /\ \E i \in 1..Len(rt.v[2]) : rt.v[2][i][1] = <<"none">>
    /\ rt.out = Err(NilIndexError)

(***************************************************************************)
(* C10. Option collapse: Some(v) encodes as v does, so that None and       *)
(* Some(None) both encode to Nil; deserialize_option calls visit_none on   *)
(* Nil and visit_some, with the same value, on anything else, so that Nil  *)
(* decoded into Option<Option<T>> is the outer None.                       *)
(***************************************************************************)
C10_OptionCollapse ==
    /\ (rt.op \in {"to_value", "from_value"} /\ rt.v[1] = "some")
            => rt.out = to_value(rt.lua, rt.v[2])
    /\ (rt.op \in {"to_value", "from_value"} /\ rt.v \in {<<"none">>, <<"some", <<"none">>>>})
            => rt.out = <<"Ok", Nil, rt.lua>>
    /\ (rt.op = "from_value" /\ rt.T[1] = "option" /\ rt.out[2] = Nil)
            => rt.back = Ok(<<"none">>)
    /\ res.op = "deserialize_option" =>
            res.r = IF res.arg = Nil THEN <<"visit_none">> ELSE <<"visit_some", res.arg>>

\* Some(None) went to Nil and came back as None.
C10_Witness ==
    /\ rt.op = "from_value"
    /\ rt.v = <<"some", <<"none">>>>
    /\ rt.out[2] = Nil
    /\ rt.back = Ok(<<"none">>)

\* What a sequence cursor has yielded so far (the elements come before the
\* ends it reports) followed by what it still holds.
SeqCursorItems ==
    [i \in 1..Cardinality({j \in 1..Len(got) : got[j] # <<>>}) |-> got[i][1]] \o de.self

(***************************************************************************)
(* C11. deserialize_any of a table calls visit_seq exactly when the        *)
(* classifier returns Sequence and visit_map otherwise; the empty table is *)
(* always handed over as an empty sequence (so a map target rejects the    *)
(* encoding of an empty map), and the cursor of a visit_seq yields every   *)
(* entry of the table, in enumeration order.                               *)
(***************************************************************************)
C11_AnyDispatch ==
    /\ (res.op = "deserialize_any" /\ IsTable(res.arg)) =>
          /\ res.r \in {<<"visit_seq">>, <<"visit_map">>}
          /\ (res.r = <<"visit_seq">>) <=> is_seq(res.arg)
          /\ Pairs(res.arg) = <<>> => res.r = <<"visit_seq">>
    /\ (de.via = "deserialize_any" /\ de.kind = "seq") =>
          SeqCursorItems = [i \in 1..Len(Pairs(de.src)) |-> Pairs(de.src)[i][2]]
    /\ (rt.op = "from_value" /\ rt.T[1] = "map" /\ rt.out[2] = Table(<<>>)) =>
          rt.back = Err(InvalidType)

\* The empty table, handed to visit_seq, whose cursor reported the end at
\* the first pull.
C11_Witness ==
    /\ res.op = "deserialize_any"
    /\ res.arg = Table(<<>>)
    /\ res.r = <<"visit_seq">>
    /\ de.kind = "seq"
    /\ got = <<<<>>>>

\* The last next_key_seed call before call i of the cursor's history, 0 when
\* there is none.
LastKeyCall(i) ==
    LET js == {j \in 1..(i - 1) : got[j][1] = "key"}
    IN IF js = {} THEN 0 ELSE CHOOSE j \in js : \A k \in js : k <= j

\* The number of keys delivered by the calls 1..j.
KeysDelivered(j) == Cardinality({k \in 1..j : got[k][1] = "key" /\ got[k][2] # <<>>})

\* A value is pending before call i: the last next_key_seed delivered a key
\* and no next_value_seed was called since.
ValuePending(i) ==
    LET j == LastKeyCall(i)
    IN /\ j > 0
       /\ got[j][2] # <<>>
       /\ \A k \in (j + 1)..(i - 1) : got[k][1] # "value"

(***************************************************************************)
(* C12. Map cursor protocol: next_value_seed fails with "value is missing" *)
(* exactly when no value is pending (no key delivered yet, the last        *)
(* next_key_seed reported the end of the map, or the value was taken), and *)
(* otherwise returns the value of the pair whose key was delivered last;   *)
(* the keys are delivered once each, in enumeration order; no value is     *)
(* dropped: between two delivered keys the first one's value is taken. The *)
(* code keeps the pending value when next_key_seed reports the end, so a   *)
(* later next_value_seed returns it, and a next_key_seed that follows a    *)
(* next_key_seed overwrites the pending value silently.                    *)
(***************************************************************************)
C12_MapCursorProtocol ==
    de.kind = "map" =>
        /\ \A i \in 1..Len(got) : got[i][1] = "value" =>
              IF ValuePending(i)
              THEN got[i][2] = Ok(Pairs(de.src)[KeysDelivered(i)][2])
              ELSE got[i][2] = Err(ValueIsMissing)
        /\ \A i \in 1..Len(got) : (got[i][1] = "key" /\ got[i][2] # <<>>) =>
              got[i][2] = <<Pairs(de.src)[KeysDelivered(i)][1]>>
        /\ \A i, j \in 1..Len(got) :
              (i < j /\ got[i][1] = "key" /\ got[i][2] # <<>> /\ got[j][1] = "key" /\ got[j][2] # <<>>)
                  => \E k \in (i + 1)..(j - 1) : got[k][1] = "value"

\* The values at the keys 1, 2, ... of the table, up to the first key that
\* is missing.
PrefixValues(t) == [i \in 1..PrefixLen(t) |-> TableGet(t, Integer(i))]

(***************************************************************************)
(* C13. Typed sequence decode: deserialize_seq (deserialize_tuple and      *)
(* deserialize_tuple_struct call it and ignore the length) of a table      *)
(* calls visit_seq with a cursor that yields exactly the values at the     *)
(* keys 1, 2, ..., k in index order, k the largest integer with 1..k all   *)
(* present, whatever the classifier says of the table; the entries under   *)
(* other keys are not yielded and cause no error; a value that is not a    *)
(* table fails with "invalid value type".                                  *)
(***************************************************************************)
C13_SeqDecodePrefix ==
    /\ res.op = "deserialize_seq" =>
          res.r = IF IsTable(res.arg) THEN <<"visit_seq">> ELSE Err(InvalidValueType)
    /\ (de.via = "deserialize_seq" /\ de.kind = "seq") =>
          SeqCursorItems = PrefixValues(de.src)
    /\ (de.via = "deserialize_seq" /\ res.op = "visit_seq" /\ IsOk(res.arg)
            /\ Cardinality({j \in 1..Len(got) : got[j] # <<>>}) = PrefixLen(de.src))
          => IsOk(res.r)

\* A table the classifier takes for a map, keys 1 and "A": the cursor
\* yielded the value at key 1, then the end, and the decode succeeded.
C13_Witness ==
    /\ de.via = "deserialize_seq"
    /\ KeysOf(de.src) = {Integer(1), String("A")}
    /\ ~is_seq(de.src)
    /\ got = <<<<TableGet(de.src, Integer(1))>>, <<>>>>
    /\ res.op = "visit_seq"
    /\ IsOk(res.r)

====
